---- MODULE Spec2Model ----
(***************************************************************************)
(* NIAP reconciliation engine (niap_reconciliation.py).                     *)
(*                                                                         *)
(* A text value is a sequence of one-character strings; a null cell        *)
(* (None / NaN) is the value None.  Two state machines are described:      *)
(*   SpecNormalizer  the two normalisers applied to bounded inputs;        *)
(*   Spec, FairSpec  one run of run_master_audit, step by step.            *)
(***************************************************************************)
EXTENDS Integers, Sequences, FiniteSets, TLC

VARIABLES
    fn, text, out, out2,            \* normaliser harness: function, input, f(x), f(f(x))
    pc,                             \* position in run_master_audit
    flaky,                          \* this run's collaborators (database, disk, drive) may raise
    source,                         \* what execute_sql returns for the three queries
    df_niap_initiatives, df_product_register, df_core_products,
    df_spine,                       \* the merged rows
    reconciliation_outcome,         \* column of df_spine, once assigned
    associated_tech_vol,            \* column of df_spine, once assigned
    core_lookup, jira_gaps, tech_exposure, base_1_gaps,
    written,                        \* artifacts written to disk, in order
    artifact_idx, attempt, upc,     \* upload loop: artifact, range(3) index, position
    calls, waits, delivered,        \* per artifact: upload calls, sleeps, success
    log

vars == <<fn, text, out, out2, pc, flaky, source,
          df_niap_initiatives, df_product_register, df_core_products,
          df_spine, reconciliation_outcome, associated_tech_vol,
          core_lookup, jira_gaps, tech_exposure, base_1_gaps,
          written, artifact_idx, attempt, upc, calls, waits, delivered, log>>

harness_vars == <<fn, text, out, out2>>

audit_vars == <<pc, flaky, source,
                df_niap_initiatives, df_product_register, df_core_products,
                df_spine, reconciliation_outcome, associated_tech_vol,
                core_lookup, jira_gaps, tech_exposure, base_1_gaps,
                written, artifact_idx, attempt, upc, calls, waits, delivered, log>>

(***************************************************************************)
(* Characters and strings                                                  *)
(***************************************************************************)
None == <<"<NA>">>

\* a column or value not assigned yet
Unset == <<"<unset>">>

isna(v) == v = None

Uppers == <<"A","B","C","D","E","F","G","H","I","J","K","L","M",
            "N","O","P","Q","R","S","T","U","V","W","X","Y","Z">>
Lowers == <<"a","b","c","d","e","f","g","h","i","j","k","l","m",
            "n","o","p","q","r","s","t","u","v","w","x","y","z">>
Digits == <<"0","1","2","3","4","5","6","7","8","9">>

\* code-point order of the characters the model uses
MiddleDot == "\\u00b7"

CharOrder == <<" ", "-">> \o Digits \o Uppers \o <<"_">> \o Lowers \o <<"|", MiddleDot>>

IsUpper(c) == \E i \in DOMAIN Uppers : Uppers[i] = c
IsLower(c) == \E i \in DOMAIN Lowers : Lowers[i] = c
IsDigit(c) == \E i \in DOMAIN Digits : Digits[i] = c
IsSpace(c) == c = " "
IsAlnum(c) == IsUpper(c) \/ IsLower(c) \/ IsDigit(c)

LowerChar(c) == IF IsUpper(c) THEN Lowers[CHOOSE i \in DOMAIN Uppers : Uppers[i] = c] ELSE c
UpperChar(c) == IF IsLower(c) THEN Uppers[CHOOSE i \in DOMAIN Lowers : Lowers[i] = c] ELSE c

Code(c) == CHOOSE i \in DOMAIN CharOrder : CharOrder[i] = c

\* str.lower(), str.upper()
lower(s) == [i \in DOMAIN s |-> LowerChar(s[i])]
upper(s) == [i \in DOMAIN s |-> UpperChar(s[i])]

\* str.strip()
RECURSIVE lstrip(_)
lstrip(s) == IF s # <<>> /\ IsSpace(s[1]) THEN lstrip(Tail(s)) ELSE s

RECURSIVE rstrip(_)
rstrip(s) == IF s # <<>> /\ IsSpace(s[Len(s)]) THEN rstrip(SubSeq(s, 1, Len(s) - 1)) ELSE s

strip(s) == rstrip(lstrip(s))

\* str(None)
StrOfNone == <<"N", "o", "n", "e">>

\* the value of Op at the value of v: v is evaluated once, as an assignment
\* "text = ..." evaluates its right-hand side once
Then(v, Op(_)) == CHOOSE y \in {Op(x) : x \in {v}} : TRUE

HasPrefix(s, p) == Len(s) >= Len(p) /\ SubSeq(s, 1, Len(p)) = p

\* str.replace(pat, rep) and re.sub of a literal pattern: leftmost, non-overlapping
RECURSIVE ReplaceAll(_, _, _)
ReplaceAll(s, pat, rep) ==
    IF Len(s) < Len(pat) \/ s = <<>> THEN s
    ELSE IF HasPrefix(s, pat)
         THEN rep \o ReplaceAll(SubSeq(s, Len(pat) + 1, Len(s)), pat, rep)
         ELSE <<s[1]>> \o ReplaceAll(Tail(s), pat, rep)

\* the loops "for p in [...]: text = <replace p>" of clean_tech_family
RECURSIVE ReplaceEach(_, _, _)
ReplaceEach(s, pats, rep) ==
    IF pats = <<>> THEN s
    ELSE Then(ReplaceAll(s, Head(pats), rep), LAMBDA t : ReplaceEach(t, Tail(pats), rep))

\* re.split(r'[|.]', text)[-1]: what follows the last separator
RECURSIVE LastSegment(_)
LastSegment(s) ==
    IF \E i \in DOMAIN s : s[i] \in {"|", MiddleDot}
    THEN LastSegment(Tail(s))
    ELSE s

\* " ".join(s.split()): runs of whitespace become one space, none at the ends
RECURSIVE Collapse(_)
Collapse(t) ==
    IF t = <<>> THEN <<>>
    ELSE IF IsSpace(t[1]) THEN <<" ">> \o Collapse(lstrip(t))
    ELSE <<t[1]>> \o Collapse(Tail(t))

SplitJoin(s) == Collapse(strip(s))

\* s.split(): the whitespace-separated words of s
RECURSIVE Words(_, _)
Words(s, word) ==
    IF s = <<>> THEN (IF word = <<>> THEN <<>> ELSE <<word>>)
    ELSE IF IsSpace(s[1])
         THEN (IF word = <<>> THEN <<>> ELSE <<word>>) \o Words(Tail(s), <<>>)
         ELSE Words(Tail(s), Append(word, s[1]))

RECURSIVE JoinWords(_)
JoinWords(ws) ==
    IF ws = <<>> THEN <<>>
    ELSE IF Len(ws) = 1 THEN ws[1]
    ELSE ws[1] \o <<" ">> \o JoinWords(Tail(ws))

\* lexicographic order of two strings by code point
RECURSIVE LexLeq(_, _)
LexLeq(s, t) ==
    IF s = <<>> THEN TRUE
    ELSE IF t = <<>> THEN FALSE
    ELSE IF s[1] = t[1] THEN LexLeq(Tail(s), Tail(t))
    ELSE Code(s[1]) < Code(t[1])

(***************************************************************************)
(* 2. TOOLS: the normalisers                                               *)
(***************************************************************************)
\* rapidfuzz utils.default_process: every non-alphanumeric character becomes
\* a space, the ends are trimmed, the text is lower-cased
default_process(s) ==
    Then([i \in DOMAIN s |-> IF IsAlnum(s[i]) THEN s[i] ELSE " "],
         LAMBDA t : Then(strip(t), lower))

\* normalize_name without the null guard
normalize_name_no_guard(t) ==
    Then(lower(IF isna(t) THEN StrOfNone ELSE t),
         LAMBDA t1 : Then(strip(LastSegment(t1)), default_process))

normalize_name(t) ==
    IF isna(t) THEN <<>>
    ELSE Then(lower(t), LAMBDA t1 : Then(strip(LastSegment(t1)), default_process))

Regions == { <<"G","B">>, <<"E","U","R">>, <<"U","S">>, <<"A","U">>, <<"N","Z">>,
             <<"S","G">>, <<"J","P">>, <<"R","O">>, <<"F","R">>, <<"P","L">>,
             <<"E","S">>, <<"I","T">>, <<"I","E">> }

\* re.sub(r'_(GB|EUR|US|AU|NZ|SG|JP|RO|FR|PL|ES|IT|IE)_?', ' ', text)
RECURSIVE SubRegions(_)
SubRegions(s) ==
    IF s = <<>> THEN <<>>
    ELSE IF s[1] = "_" /\ \E r \in Regions : HasPrefix(Tail(s), r)
         THEN LET r    == CHOOSE q \in Regions : HasPrefix(Tail(s), q)
                  rest == SubSeq(s, Len(r) + 2, Len(s))
              IN  <<" ">> \o SubRegions(IF rest # <<>> /\ rest[1] = "_" THEN Tail(rest) ELSE rest)
         ELSE <<s[1]>> \o SubRegions(Tail(s))

Prefixes == << <<"P","T","_">>, <<"M","F","_">>, <<"A","C","Q","_">>,
               <<"R","E","V","X","_">>, <<"R","V","_">>, <<"P","R","C","H","S","_">> >>

Qualifiers == << <<"R","E","P","R","I","C","I","N","G">>, <<"P","L","A","N">>,
                 <<"B","A","S","E">>, <<"S","T","D">>, <<"P","R","E","M">>,
                 <<"M","E","T","A","L">>, <<"P","L","U","S">>, <<"O","F","F","E","R">>,
                 <<"F","R","E","E">>, <<"U","L">>, <<"P","R">>, <<"S","T">> >>

\* re.sub(r'[^A-Z0-9\s]', ' ', text)
Punctuation(s) == [i \in DOMAIN s |-> IF IsUpper(s[i]) \/ IsDigit(s[i]) \/ IsSpace(s[i])
                                      THEN s[i] ELSE " "]

clean_tech_family(t) ==
    IF isna(t) THEN <<>>
    ELSE Then(upper(t), LAMBDA t0 :
         Then(SubRegions(t0), LAMBDA t1 :
         Then(ReplaceEach(t1, Prefixes, <<" ">>), LAMBDA t2 :
         Then(ReplaceEach(t2, Qualifiers, <<>>), LAMBDA t3 :
         Then(Punctuation(t3), LAMBDA t4 :
         Then(SplitJoin(t4), lower))))))

(***************************************************************************)
(* Normaliser harness: bounded inputs                                      *)
(***************************************************************************)
MaxNameLen == 3
MaxWords == 2

RECURSIVE SeqsUpTo(_, _)
SeqsUpTo(S, n) ==
    IF n = 0 THEN {<<>>}
    ELSE LET P == SeqsUpTo(S, n - 1)
         IN  P \cup {Append(p, c) : p \in {q \in P : Len(q) = n - 1}, c \in S}

NameAlphabet == {"A", "b", "1", " ", "-", "|", MiddleDot}

AlphaProductLabel == <<"A","l","p","h","a"," ","P","r","o","d","u","c","t">>

NameInputs == SeqsUpTo(NameAlphabet, MaxNameLen) \cup {None, AlphaProductLabel}

FamilyWords == { <<"A","L","P","H","A">>, <<"P","R","O","D","U","C","T">>,
                 <<"W","I","D","G","E","T">> }

RECURSIVE JoinUnderscore(_)
JoinUnderscore(ws) ==
    IF ws = <<>> THEN <<>>
    ELSE IF Len(ws) = 1 THEN ws[1]
    ELSE ws[1] \o <<"_">> \o JoinUnderscore(Tail(ws))

\* identifiers <prefix><WORD>_<WORD>[_<region>][_<qualifier>]
FamilyInputs ==
    { p \o JoinUnderscore(ws) \o r \o q :
        p  \in {<<>>, <<"P","T","_">>, <<"M","F","_">>},
        ws \in SeqsUpTo(FamilyWords, MaxWords) \ {<<>>},
        r  \in {<<>>, <<"_","G","B">>, <<"_","F","R">>},
        q  \in {<<>>, <<"_","S","T","D">>, <<"_","P","L","A","N">>, <<"_","S","T">>} }
    \cup {None}

InitAudit_idle ==
    /\ pc = "idle"
    /\ flaky = FALSE
    /\ source = <<>>
    /\ df_niap_initiatives = <<>>
    /\ df_product_register = <<>>
    /\ df_core_products = <<>>
    /\ df_spine = <<>>
    /\ reconciliation_outcome = Unset
    /\ associated_tech_vol = <<>>
    /\ core_lookup = <<>>
    /\ jira_gaps = <<>>
    /\ tech_exposure = <<>>
    /\ base_1_gaps = <<>>
    /\ written = <<>>
    /\ artifact_idx = 1
    /\ attempt = 0
    /\ upc = "call"
    /\ calls = <<>>
    /\ waits = <<>>
    /\ delivered = {}
    /\ log = <<>>

InitNormalizer ==
    /\ \/ fn = "normalize_name" /\ text \in NameInputs
       \/ fn = "clean_tech_family" /\ text \in FamilyInputs
    /\ out = Unset
    /\ out2 = Unset
    /\ InitAudit_idle

CallNormalizeName ==
    /\ fn = "normalize_name"
    /\ out = Unset
    /\ out' = normalize_name(text)
    /\ UNCHANGED <<fn, text, out2>>
    /\ UNCHANGED audit_vars

\* the key is normalised again, as when a key is fed back as a label
CallNormalizeNameAgain ==
    /\ fn = "normalize_name"
    /\ out # Unset
    /\ out2 = Unset
    /\ out2' = normalize_name(out)
    /\ UNCHANGED <<fn, text, out>>
    /\ UNCHANGED audit_vars

CallCleanTechFamily ==
    /\ fn = "clean_tech_family"
    /\ out = Unset
    /\ out' = clean_tech_family(text)
    /\ UNCHANGED <<fn, text, out2>>
    /\ UNCHANGED audit_vars

NextNormalizer ==
    \/ CallNormalizeName
    \/ CallNormalizeNameAgain
    \/ CallCleanTechFamily

SpecNormalizer == InitNormalizer /\ [][NextNormalizer]_vars

(***************************************************************************)
(* 3. PIPELINE: tables                                                     *)
(***************************************************************************)
\* an opaque text cell (an issue status, a product status)
Str(s) == <<s>>

IdOf(i) == <<"JIRA", i>>

ApprovedForLaunch == Str("Approved for Launch")
Monitoring == Str("Monitoring")
Development == Str("Development")
Closed == Str("Closed")
Unknown == Str("Unknown")

ActionableStatuses == {ApprovedForLaunch, Monitoring, Development}

MATCHED == "MATCHED"
JIRA_ONLY == "JIRA_ONLY (Unmapped Ticket)"
REGISTER_ONLY == "REGISTER_ONLY (Unmapped Product)"

\* pandas outer merge on 'join_key': the distinct keys, in order of first
\* appearance (left frame, then right frame), or sorted lexicographically
RECURSIVE Dedup(_, _)
Dedup(ks, seen) ==
    IF ks = <<>> THEN <<>>
    ELSE IF Head(ks) \in seen THEN Dedup(Tail(ks), seen)
    ELSE <<Head(ks)>> \o Dedup(Tail(ks), seen \cup {Head(ks)})

RECURSIVE SortKeys(_)
SortKeys(S) ==
    IF S = {} THEN <<>>
    ELSE LET m == CHOOSE k \in S : \A o \in S : LexLeq(k, o)
         IN  <<m>> \o SortKeys(S \ {m})

Column(df, col) == [i \in DOMAIN df |-> df[i][col]]

Range(f) == {f[i] : i \in DOMAIN f}

Indices(df, k) ==
    LET idx == [i \in 1..Len(df) |-> i]
        Test(i) == df[i].join_key = k
    IN  SelectSeq(idx, Test)

\* one result row from left row l and right row r (0: no counterpart, cells are NaN)
SpineRow(left, right, k, l, r) ==
    [ left_idx       |-> l,
      right_idx      |-> r,
      join_key       |-> k,
      issue_id       |-> IF l = 0 THEN None ELSE left[l].issue_id,
      summary        |-> IF l = 0 THEN None ELSE left[l].summary,
      issue_status   |-> IF l = 0 THEN None ELSE left[l].issue_status,
      name           |-> IF r = 0 THEN None ELSE right[r].name,
      product_status |-> IF r = 0 THEN None ELSE right[r].product_status ]

\* the rows of one key: every left row with every right row, left-major
KeyGroup(left, right, k) ==
    LET L == Indices(left, k)
        R == Indices(right, k)
    IN  IF R = <<>> THEN [i \in 1..Len(L) |-> SpineRow(left, right, k, L[i], 0)]
        ELSE IF L = <<>> THEN [j \in 1..Len(R) |-> SpineRow(left, right, k, 0, R[j])]
        ELSE [n \in 1..(Len(L) * Len(R)) |->
                SpineRow(left, right, k, L[((n - 1) \div Len(R)) + 1],
                                         R[((n - 1) % Len(R)) + 1])]

RECURSIVE ConcatGroups(_, _, _)
ConcatGroups(left, right, ks) ==
    IF ks = <<>> THEN <<>>
    ELSE KeyGroup(left, right, Head(ks)) \o ConcatGroups(left, right, Tail(ks))

\* pd.merge(left, right, on='join_key', how='inner'): only keys present on both sides
merge_inner(left, right, sort) ==
    LET lk == Column(left, "join_key")
        rk == Column(right, "join_key")
        both == Range(lk) \cap Range(rk)
        keys == IF sort THEN SortKeys(both)
                ELSE Dedup(SelectSeq(lk, LAMBDA k : k \in both), {})
    IN  ConcatGroups(left, right, keys)

\* pd.merge(left, right, on='join_key', how='outer', suffixes=('_jira', '_reg'))
merge_outer(left, right, sort) ==
    LET lk == Column(left, "join_key")
        rk == Column(right, "join_key")
        keys == IF sort THEN SortKeys(Range(lk) \cup Range(rk))
                ELSE Dedup(lk \o rk, {})
    IN  ConcatGroups(left, right, keys)

\* categorize_overlap reading product_status where it should read name
categorize_overlap_by_status(row) ==
    IF ~isna(row.issue_id) /\ ~isna(row.product_status) THEN MATCHED
    ELSE IF ~isna(row.issue_id) THEN JIRA_ONLY
    ELSE REGISTER_ONLY

categorize_overlap(row) ==
    IF ~isna(row.issue_id) /\ ~isna(row.name) THEN MATCHED
    ELSE IF ~isna(row.issue_id) THEN JIRA_ONLY
    ELSE REGISTER_ONLY

RECURSIVE SumVolume(_, _)
SumVolume(df, family) ==
    IF df = <<>> THEN 0
    ELSE (IF Head(df).clean_family = family THEN Head(df).risk_volume ELSE 0)
         + SumVolume(Tail(df), family)

\* df.groupby('clean_family')['risk_volume'].first(): the first record's volume
groupby_first(df) ==
    [family \in Range(Column(df, "clean_family")) |->
        df[CHOOSE i \in DOMAIN df :
              /\ df[i].clean_family = family
              /\ \A j \in DOMAIN df : df[j].clean_family = family => i <= j].risk_volume]

\* df.groupby('clean_family')['risk_volume'].sum(): family -> total, keys sorted
groupby_sum(df) ==
    [family \in Range(Column(df, "clean_family")) |-> SumVolume(df, family)]

\* df_spine['join_key'].map(core_lookup).fillna(0)
map_lookup(keys, lookup) ==
    [i \in DOMAIN keys |-> IF keys[i] \in DOMAIN lookup THEN lookup[keys[i]] ELSE 0]

\* Series.sort_values(ascending=False) of a groupby result: by total, descending;
\* equal totals keep the groupby order (keys ascending)
RECURSIVE SortDescending(_, _)
SortDescending(lookup, families) ==
    IF families = {} THEN <<>>
    ELSE LET m == CHOOSE f \in families :
                    \A g \in families :
                        \/ lookup[f] > lookup[g]
                        \/ lookup[f] = lookup[g] /\ LexLeq(f, g)
         IN  <<[clean_family |-> m, risk_volume |-> lookup[m]]>>
             \o SortDescending(lookup, families \ {m})

\* df.head(n)
head(df, n) == SubSeq(df, 1, IF Len(df) < n THEN Len(df) ELSE n)

GapRows == 50
ReportRows == 20

\* the row filter of jira_gaps without the status condition
jira_gaps_filter_no_status(spine, outcome) ==
    LET idx == [i \in 1..Len(spine) |-> i]
        Test(i) == outcome[i] = JIRA_ONLY
    IN  SelectSeq(idx, Test)

\* indices of df_spine[(outcome == JIRA_ONLY) & issue_status.isin([...])]
jira_gaps_filter(spine, outcome) ==
    LET idx == [i \in 1..Len(spine) |-> i]
        Test(i) == /\ outcome[i] = JIRA_ONLY
                   /\ spine[i].issue_status \in ActionableStatuses
    IN  SelectSeq(idx, Test)

\* [['issue_id', 'summary', 'issue_status']]; the frame keeps the spine's row labels
GapColumns(spine, idx) ==
    [n \in DOMAIN idx |-> [index        |-> idx[n],
                           issue_id     |-> spine[idx[n]].issue_id,
                           summary      |-> spine[idx[n]].summary,
                           issue_status |-> spine[idx[n]].issue_status]]

\* df_core_products[~df_core_products['clean_family'].isin(df_spine['join_key'])]
unmapped_core(core, spine) ==
    LET keys == Range(Column(spine, "join_key"))
        Test(r) == r.clean_family \notin keys
    IN  SelectSeq(core, Test)

(***************************************************************************)
(* What the database may hold                                              *)
(***************************************************************************)
MaxRows == 4

Summaries == {None, <<"A">>}
Statuses == {Development, Closed}
RegisterNames == {None, <<"a", " ">>, <<"x", "|", "B">>}
CoreNames == {<<"A">>, <<"C", "_", "F", "R">>}
Volumes == {1, 2}

TicketTables(n) ==
    { [i \in 1..n |-> [issue_id     |-> IF c[i][1] THEN IdOf(i) ELSE None,
                       summary      |-> c[i][2],
                       issue_status |-> c[i][3]]] :
        c \in [1..n -> BOOLEAN \X Summaries \X Statuses] }

RegisterTables(n) ==
    { [i \in 1..n |-> [name |-> c[i], product_status |-> None]] :
        c \in [1..n -> RegisterNames] }

CoreTables(n) ==
    { [i \in 1..n |-> [name |-> c[i][1], risk_volume |-> c[i][2]]] :
        c \in [1..n -> CoreNames \X Volumes] }

\* the row counts of the three tables: at most MaxRows rows in all
Shapes ==
    { m \in (0..MaxRows) \X (0..MaxRows) \X (0..MaxRows) : m[1] + m[2] + m[3] <= MaxRows }

\* every database of one shape
Sources(n) ==
    { [tickets |-> t, registry |-> r, core |-> c] :
        t \in TicketTables(n[1]), r \in RegisterTables(n[2]), c \in CoreTables(n[3]) }

\* more unmapped actionable tickets than the gap list shows, on two keys in turn
LongSource ==
    [ tickets  |-> [i \in 1..(GapRows + 1) |->
                      [issue_id     |-> IdOf(i),
                       summary      |-> IF i % 2 = 1 THEN <<"B">> ELSE <<"A">>,
                       issue_status |-> Development]],
      registry |-> <<>>,
      core     |-> <<>> ]

\* the sample frames of the mock execute_sql
MockSource ==
    [ tickets  |-> << [issue_id |-> IdOf(123), issue_status |-> ApprovedForLaunch,
                       summary |-> <<"A","l","p","h","a"," ","P","r","o","d","u","c","t">>],
                      [issue_id |-> IdOf(456), issue_status |-> Development,
                       summary |-> <<"B","e","t","a"," ","S","e","r","v","i","c","e">>],
                      [issue_id |-> IdOf(789), issue_status |-> Monitoring,
                       summary |-> <<"G","a","m","m","a"," ","P","l","a","t","f","o","r","m">>] >>,
      registry |-> << [name |-> <<"A","l","p","h","a"," ","P","r","o","d","u","c","t">>,
                       product_status |-> Str("Active")],
                      [name |-> <<"D","e","l","t","a"," ","W","i","d","g","e","t">>,
                       product_status |-> Str("Draft")] >>,
      core     |-> << [name |-> <<"A","l","p","h","a"," ","P","r","o","d","u","c","t">>,
                       risk_volume |-> 100],
                      [name |-> <<"E","p","s","i","l","o","n"," ","T","o","o","l">>,
                       risk_volume |-> 50] >> ]

\* the database of the runs whose collaborators may raise
FlakySource ==
    [ tickets  |-> << [issue_id |-> IdOf(1), summary |-> <<"B">>, issue_status |-> Development],
                      [issue_id |-> IdOf(2), summary |-> <<"A">>, issue_status |-> Closed] >>,
      registry |-> << [name |-> <<"a", " ">>, product_status |-> Str("Active")] >>,
      core     |-> << [name |-> <<"A">>, risk_volume |-> 2] >> ]

(***************************************************************************)
(* Artifacts                                                               *)
(***************************************************************************)
\* the order of the writes of Step 9
WriteOrder == <<"REPORT_MD", "TXT_METADATA", "CSV_TOC", "CSV_MASTER_SPINE",
                "CSV_BASE_0", "CSV_BASE_1_GAPS", "CSV_BASE_2">>

\* the list the upload loop walks
Artifacts == <<"CSV_TOC", "CSV_MASTER_SPINE", "REPORT_MD", "CSV_BASE_0",
               "CSV_BASE_1_GAPS", "CSV_BASE_2", "TXT_METADATA">>

ArtifactSet == Range(Artifacts)

\* range(4)
attempts_range_4 == 0..3

\* for attempt in range(3)
attempts_range == 0..2

COMPLETE == "RECONCILIATION COMPLETE"
ERROR == "An error occurred during the audit process"

(***************************************************************************)
(* run_master_audit                                                        *)
(***************************************************************************)
InitHarness_idle ==
    /\ fn = "none"
    /\ text = None
    /\ out = Unset
    /\ out2 = Unset

InitAudit(sources, may_raise) ==
    /\ InitHarness_idle
    /\ pc = "extract"
    /\ flaky = may_raise
    /\ source \in sources
    /\ df_niap_initiatives = <<>>
    /\ df_product_register = <<>>
    /\ df_core_products = <<>>
    /\ df_spine = <<>>
    /\ reconciliation_outcome = Unset
    /\ associated_tech_vol = <<>>
    /\ core_lookup = <<>>
    /\ jira_gaps = <<>>
    /\ tech_exposure = <<>>
    /\ base_1_gaps = <<>>
    /\ written = <<>>
    /\ artifact_idx = 1
    /\ attempt = 0
    /\ upc = "call"
    /\ calls = [a \in ArtifactSet |-> 0]
    /\ waits = [a \in ArtifactSet |-> 0]
    /\ delivered = {}
    /\ log = <<>>

\* a run against reliable collaborators over any database, or against
\* collaborators that may raise over one small database
Init ==
    \/ \E n \in Shapes : InitAudit(Sources(n), FALSE)
    \/ InitAudit({LongSource, MockSource}, FALSE)
    \/ InitAudit({FlakySource}, TRUE)

InitFlaky == InitAudit({FlakySource}, TRUE)

data_vars == <<df_niap_initiatives, df_product_register, df_core_products,
               df_spine, reconciliation_outcome, associated_tech_vol,
               core_lookup, jira_gaps, tech_exposure, base_1_gaps>>

upload_vars == <<artifact_idx, attempt, upc, calls, waits, delivered>>

\* Step 1: the three queries return
Extract ==
    /\ pc = "extract"
    /\ df_niap_initiatives' = source.tickets
    /\ df_product_register' = source.registry
    /\ df_core_products' = source.core
    /\ pc' = "keys"
    /\ UNCHANGED <<df_spine, reconciliation_outcome, associated_tech_vol,
                   core_lookup, jira_gaps, tech_exposure, base_1_gaps>>
    /\ UNCHANGED <<flaky, source, written, log>>
    /\ UNCHANGED upload_vars
    /\ UNCHANGED harness_vars

\* Step 1: zeus() or execute_sql raises
ExtractRaises ==
    /\ pc = "extract"
    /\ flaky
    /\ pc' = "error"
    /\ UNCHANGED data_vars
    /\ UNCHANGED <<flaky, source, written, log>>
    /\ UNCHANGED upload_vars
    /\ UNCHANGED harness_vars

\* Steps 2 and 3: fillna('Unknown'), then the join_key columns
CreateKeys ==
    /\ pc = "keys"
    /\ df_niap_initiatives' =
         [i \in DOMAIN df_niap_initiatives |->
            [issue_id     |-> df_niap_initiatives[i].issue_id,
             summary      |-> df_niap_initiatives[i].summary,
             issue_status |-> df_niap_initiatives[i].issue_status,
             join_key     |-> normalize_name(df_niap_initiatives[i].summary)]]
    /\ df_product_register' =
         [i \in DOMAIN df_product_register |->
            [name           |-> df_product_register[i].name,
             product_status |-> IF isna(df_product_register[i].product_status)
                                THEN Unknown
                                ELSE df_product_register[i].product_status,
             join_key       |-> normalize_name(df_product_register[i].name)]]
    /\ pc' = "merge"
    /\ UNCHANGED <<df_core_products, df_spine, reconciliation_outcome,
                   associated_tech_vol, core_lookup, jira_gaps, tech_exposure,
                   base_1_gaps>>
    /\ UNCHANGED <<flaky, source, written, log>>
    /\ UNCHANGED upload_vars
    /\ UNCHANGED harness_vars

\* Step 4: the outer join; the key order is the pandas build's
BuildSpine ==
    /\ pc = "merge"
    /\ \E sort \in BOOLEAN :
          df_spine' = merge_outer(df_niap_initiatives, df_product_register, sort)
    /\ pc' = "categorize"
    /\ UNCHANGED <<df_niap_initiatives, df_product_register, df_core_products,
                   reconciliation_outcome, associated_tech_vol, core_lookup,
                   jira_gaps, tech_exposure, base_1_gaps>>
    /\ UNCHANGED <<flaky, source, written, log>>
    /\ UNCHANGED upload_vars
    /\ UNCHANGED harness_vars

\* df_spine['reconciliation_outcome'] = df_spine.apply(categorize_overlap, axis=1)
Categorize ==
    /\ pc = "categorize"
    /\ reconciliation_outcome' = [i \in DOMAIN df_spine |-> categorize_overlap(df_spine[i])]
    /\ pc' = "footprint"
    /\ UNCHANGED <<df_niap_initiatives, df_product_register, df_core_products,
                   df_spine, associated_tech_vol, core_lookup,
                   jira_gaps, tech_exposure, base_1_gaps>>
    /\ UNCHANGED <<flaky, source, written, log>>
    /\ UNCHANGED upload_vars
    /\ UNCHANGED harness_vars

\* Step 5: clean_family, core_lookup, associated_tech_vol
AttachFootprints ==
    /\ pc = "footprint"
    /\ LET core == [i \in DOMAIN df_core_products |->
                      [name         |-> df_core_products[i].name,
                       risk_volume  |-> df_core_products[i].risk_volume,
                       clean_family |-> clean_tech_family(df_core_products[i].name)]]
           lookup == groupby_sum(core)
       IN  /\ df_core_products' = core
           /\ core_lookup' = lookup
           /\ associated_tech_vol' = map_lookup(Column(df_spine, "join_key"), lookup)
    /\ pc' = "metrics"
    /\ UNCHANGED <<df_niap_initiatives, df_product_register, df_spine,
                   reconciliation_outcome, jira_gaps, tech_exposure, base_1_gaps>>
    /\ UNCHANGED <<flaky, source, written, log>>
    /\ UNCHANGED upload_vars
    /\ UNCHANGED harness_vars

\* Step 6: jira_gaps
Metrics ==
    /\ pc = "metrics"
    /\ jira_gaps' = head(GapColumns(df_spine,
                                    jira_gaps_filter(df_spine, reconciliation_outcome)),
                         GapRows)
    /\ pc' = "report"
    /\ UNCHANGED <<df_niap_initiatives, df_product_register, df_core_products,
                   df_spine, reconciliation_outcome, associated_tech_vol,
                   core_lookup, tech_exposure, base_1_gaps>>
    /\ UNCHANGED <<flaky, source, written, log>>
    /\ UNCHANGED upload_vars
    /\ UNCHANGED harness_vars

\* Step 8: section 4 of the report, "Technical Exposure (Core Gaps)"
Report ==
    /\ pc = "report"
    /\ LET totals == groupby_sum(df_core_products)
       IN  tech_exposure' = head(SortDescending(totals, DOMAIN totals), ReportRows)
    /\ pc' = "write"
    /\ UNCHANGED <<df_niap_initiatives, df_product_register, df_core_products,
                   df_spine, reconciliation_outcome, associated_tech_vol,
                   core_lookup, jira_gaps, base_1_gaps>>
    /\ UNCHANGED <<flaky, source, written, log>>
    /\ UNCHANGED upload_vars
    /\ UNCHANGED harness_vars

\* Step 9: the seven writes; a write that raises ends the block there
WriteArtifacts ==
    /\ pc = "write"
    /\ \E n \in 0..Len(WriteOrder) :
          /\ n < Len(WriteOrder) => flaky
          /\ written' = SubSeq(WriteOrder, 1, n)
          /\ base_1_gaps' = IF \E k \in 1..n : WriteOrder[k] = "CSV_BASE_1_GAPS"
                            THEN unmapped_core(df_core_products, df_spine)
                            ELSE base_1_gaps
          /\ pc' = IF n = Len(WriteOrder) THEN "upload" ELSE "error"
    /\ UNCHANGED <<df_niap_initiatives, df_product_register, df_core_products,
                   df_spine, reconciliation_outcome, associated_tech_vol,
                   core_lookup, jira_gaps, tech_exposure>>
    /\ UNCHANGED <<flaky, source, log>>
    /\ UNCHANGED upload_vars
    /\ UNCHANGED harness_vars

\* upload_to_drive returns: the loop of Step 9 goes to the next artifact
NextArtifact ==
    /\ artifact_idx' = artifact_idx + 1
    /\ attempt' = 0
    /\ upc' = "call"
    /\ pc' = IF artifact_idx = Len(Artifacts) THEN "complete" ELSE "upload"

\* upload_to_drive: one call of upload_file_to_gdrive; it returns or raises
UploadCall ==
    /\ pc = "upload"
    /\ upc = "call"
    /\ LET a == Artifacts[artifact_idx]
       IN  /\ calls' = [calls EXCEPT ![a] = @ + 1]
           /\ \E ok \in (IF flaky THEN BOOLEAN ELSE {TRUE}) :
                 IF ok
                 THEN /\ delivered' = delivered \cup {a}
                      /\ NextArtifact
                 ELSE /\ upc' = "sleep"
                      /\ UNCHANGED <<delivered, artifact_idx, attempt, pc>>
    /\ UNCHANGED waits
    /\ UNCHANGED data_vars
    /\ UNCHANGED <<flaky, source, written, log>>
    /\ UNCHANGED harness_vars

\* upload_to_drive that raises once its last attempt has failed
Backoff_reraise ==
    /\ pc = "upload"
    /\ upc = "sleep"
    /\ waits' = [waits EXCEPT ![Artifacts[artifact_idx]] = @ + 1]
    /\ IF attempt + 1 \in attempts_range
       THEN /\ attempt' = attempt + 1
            /\ upc' = "call"
            /\ UNCHANGED <<artifact_idx, pc>>
       ELSE /\ pc' = "error"
            /\ UNCHANGED <<artifact_idx, attempt, upc>>
    /\ UNCHANGED <<calls, delivered>>
    /\ UNCHANGED data_vars
    /\ UNCHANGED <<flaky, source, written, log>>
    /\ UNCHANGED harness_vars

\* upload_to_drive, except Exception: time.sleep(5), then the next attempt or
\* the end of the loop, where the function returns None
Backoff ==
    /\ pc = "upload"
    /\ upc = "sleep"
    /\ waits' = [waits EXCEPT ![Artifacts[artifact_idx]] = @ + 1]
    /\ IF attempt + 1 \in attempts_range
       THEN /\ attempt' = attempt + 1
            /\ upc' = "call"
            /\ UNCHANGED <<artifact_idx, pc>>
       ELSE NextArtifact
    /\ UNCHANGED <<calls, delivered>>
    /\ UNCHANGED data_vars
    /\ UNCHANGED <<flaky, source, written, log>>
    /\ UNCHANGED harness_vars

\* logger.info("RECONCILIATION COMPLETE ...")
Complete ==
    /\ pc = "complete"
    /\ log' = Append(log, COMPLETE)
    /\ pc' = "done"
    /\ UNCHANGED data_vars
    /\ UNCHANGED <<flaky, source, written>>
    /\ UNCHANGED upload_vars
    /\ UNCHANGED harness_vars

\* except Exception: logger.error(...)
HandleError ==
    /\ pc = "error"
    /\ log' = Append(log, ERROR)
    /\ pc' = "done"
    /\ UNCHANGED data_vars
    /\ UNCHANGED <<flaky, source, written>>
    /\ UNCHANGED upload_vars
    /\ UNCHANGED harness_vars

Next ==
    \/ Extract
    \/ ExtractRaises
    \/ CreateKeys
    \/ BuildSpine
    \/ Categorize
    \/ AttachFootprints
    \/ Metrics
    \/ Report
    \/ WriteArtifacts
    \/ UploadCall
    \/ Backoff
    \/ Complete
    \/ HandleError

Spec == Init /\ [][Next]_vars

\* every step of the run is a step of one sequential program: it is taken
FairSpec == InitFlaky /\ [][Next]_vars /\ WF_vars(Next)

(***************************************************************************)
(* Properties                                                              *)
(***************************************************************************)
SpineBuilt == pc \notin {"idle", "extract", "keys", "merge"}

\* a run that raised had either built nothing or built everything
ReachedWrite == pc \in {"write", "upload", "complete", "done"}
                \/ (pc = "error" /\ reconciliation_outcome # Unset)

FootprintAttached == pc \in {"metrics", "report"} \/ ReachedWrite

GapsBuilt == pc = "report" \/ ReachedWrite

SpineKeys == Range(Column(df_spine, "join_key"))

RowsOfKey(k) == {i \in DOMAIN df_spine : df_spine[i].join_key = k}

RECURSIVE SumOver(_, _)
SumOver(f, S) ==
    IF S = {} THEN 0
    ELSE LET i == CHOOSE j \in S : TRUE IN f[i] + SumOver(f, S \ {i})

\* C1: after the outer join every ticket and every registry entry, null or
\* blank labels included, is carried by at least one spine row
C1_JoinCompleteness ==
    SpineBuilt =>
        /\ \A i \in DOMAIN df_niap_initiatives :
              \E n \in DOMAIN df_spine :
                 /\ df_spine[n].left_idx = i
                 /\ df_spine[n].issue_id = df_niap_initiatives[i].issue_id
                 /\ df_spine[n].summary = df_niap_initiatives[i].summary
                 /\ df_spine[n].issue_status = df_niap_initiatives[i].issue_status
        /\ \A j \in DOMAIN df_product_register :
              \E n \in DOMAIN df_spine :
                 /\ df_spine[n].right_idx = j
                 /\ df_spine[n].name = df_product_register[j].name
                 /\ df_spine[n].product_status = df_product_register[j].product_status

C1_Witness ==
    /\ pc = "categorize"
    /\ \E i \in DOMAIN df_niap_initiatives :
          /\ isna(df_niap_initiatives[i].summary)
          /\ \A j \in DOMAIN df_product_register :
                df_product_register[j].join_key # df_niap_initiatives[i].join_key
    /\ \E j \in DOMAIN df_product_register :
          \A i \in DOMAIN df_niap_initiatives :
             df_product_register[j].join_key # df_niap_initiatives[i].join_key

\* C2 as stated: per join key, the associated_tech_vol of the spine rows of that
\* key add up to no more than the risk_volume of the technical records of that family
C2_VolumeConservation ==
    FootprintAttached =>
        \A k \in SpineKeys :
           SumOver(associated_tech_vol, RowsOfKey(k)) <= SumVolume(df_core_products, k)

\* C2 amended: every spine row carries the whole total of the family equal to
\* its join key (0 when there is none), so the rows of a key add up to that
\* total times their number
C2_RowCarriesFamilyTotal ==
    FootprintAttached =>
        /\ DOMAIN associated_tech_vol = DOMAIN df_spine
        /\ \A i \in DOMAIN df_spine :
              associated_tech_vol[i] = SumVolume(df_core_products, df_spine[i].join_key)
        /\ \A k \in SpineKeys :
              SumOver(associated_tech_vol, RowsOfKey(k))
                 = Cardinality(RowsOfKey(k)) * SumVolume(df_core_products, k)

C2_Witness ==
    /\ FootprintAttached
    /\ \E i, j \in DOMAIN df_spine :
          /\ i # j
          /\ df_spine[i].join_key = df_spine[j].join_key
          /\ associated_tech_vol[i] > 0
    /\ \E a, b \in DOMAIN df_core_products :
          a # b /\ df_core_products[a].clean_family = df_core_products[b].clean_family

\* what removing the qualifier words as whole words leaves of an identifier
WholeTokenFamily(t) ==
    IF isna(t) THEN <<>>
    ELSE Then(upper(t), LAMBDA t0 :
         Then(SubRegions(t0), LAMBDA t1 :
         Then(ReplaceEach(t1, Prefixes, <<" ">>), LAMBDA t2 :
         Then(Words(Punctuation(t2), <<>>), LAMBDA ws :
         lower(JoinWords(SelectSeq(ws, LAMBDA w : w \notin Range(Qualifiers))))))))

PT_ALPHA_PRODUCT_GB_STD ==
    <<"P","T","_","A","L","P","H","A","_","P","R","O","D","U","C","T","_","G","B","_","S","T","D">>

\* C3: clean_tech_family drops qualifier words only as whole words, and
\* "PT_ALPHA_PRODUCT_GB_STD" becomes "alpha product", the key of "Alpha Product"
C3_WholeTokens ==
    (fn = "clean_tech_family" /\ out # Unset) =>
        /\ out = WholeTokenFamily(text)
        /\ text = PT_ALPHA_PRODUCT_GB_STD =>
              /\ out = <<"a","l","p","h","a"," ","p","r","o","d","u","c","t">>
              /\ out = normalize_name(AlphaProductLabel)

Present(row) == <<~isna(row.issue_id), ~isna(row.name)>>

C4_OneOutcomePerRow ==
    reconciliation_outcome # Unset =>
        /\ DOMAIN reconciliation_outcome = DOMAIN df_spine
        /\ \A i \in DOMAIN df_spine :
              reconciliation_outcome[i] \in {MATCHED, JIRA_ONLY, REGISTER_ONLY}
        /\ \A i, j \in DOMAIN df_spine :
              Present(df_spine[i]) = Present(df_spine[j])
                 => reconciliation_outcome[i] = reconciliation_outcome[j]

C4_WrittenOnce ==
    reconciliation_outcome # Unset =>
        /\ reconciliation_outcome' = reconciliation_outcome
        /\ df_spine' = df_spine

\* C4: every spine row has one outcome of the three, two rows with the same
\* (issue_id present, name present) pair have the same outcome, and once the
\* column is written no later step changes it
C4_Classification == []C4_OneOutcomePerRow /\ [][C4_WrittenOnce]_vars

C4_Witness ==
    /\ pc = "done"
    /\ log = <<COMPLETE>>
    /\ {MATCHED, JIRA_ONLY, REGISTER_ONLY} \subseteq Range(reconciliation_outcome)
    /\ \E i, j \in DOMAIN df_spine : i # j /\ Present(df_spine[i]) = Present(df_spine[j])


Qualifying ==
    {i \in DOMAIN df_spine :
        /\ reconciliation_outcome[i] = JIRA_ONLY
        /\ df_spine[i].issue_status \in ActionableStatuses}

GapsAreQualifyingAndCapped ==
    /\ Len(jira_gaps) <= GapRows
    /\ \A n \in DOMAIN jira_gaps :
          /\ jira_gaps[n].index \in Qualifying
          /\ jira_gaps[n].issue_id = df_spine[jira_gaps[n].index].issue_id
          /\ jira_gaps[n].summary = df_spine[jira_gaps[n].index].summary
          /\ jira_gaps[n].issue_status = df_spine[jira_gaps[n].index].issue_status

GapTicket(n) == df_spine[jira_gaps[n].index].left_idx

\* C5 as stated: only ticket-only rows of actionable status, at most 50, and
\* they are the first 50 qualifying rows in the order of the ticket input
C5_TicketInputOrder ==
    GapsBuilt =>
        /\ GapsAreQualifyingAndCapped
        /\ \A n, m \in DOMAIN jira_gaps : n < m => GapTicket(n) <= GapTicket(m)
        /\ \A i \in Qualifying :
              (\A n \in DOMAIN jira_gaps : jira_gaps[n].index # i)
                 => \A n \in DOMAIN jira_gaps : GapTicket(n) <= df_spine[i].left_idx

\* C5 amended: only ticket-only rows of actionable status, at most 50, and they
\* are the first 50 qualifying rows in the order of the spine (the outer join's
\* row order, which groups the rows by join key)
C5_SpineOrder ==
    GapsBuilt =>
        /\ GapsAreQualifyingAndCapped
        /\ Len(jira_gaps) = IF Cardinality(Qualifying) < GapRows
                            THEN Cardinality(Qualifying) ELSE GapRows
        /\ \A n \in DOMAIN jira_gaps :
              Cardinality({i \in Qualifying : i <= jira_gaps[n].index}) = n

C5_Witness ==
    /\ pc = "done"
    /\ Len(jira_gaps) = GapRows
    /\ Cardinality(Qualifying) > GapRows
    /\ \E n, m \in DOMAIN jira_gaps : n < m /\ GapTicket(n) > GapTicket(m)

ExposureBuilt == pc \in {"upload", "complete", "done"}

UnmappedFamilies ==
    {df_core_products[i].clean_family : i \in DOMAIN df_core_products} \ SpineKeys

IsUnmappedView(view) ==
    /\ {view[n].clean_family : n \in DOMAIN view} = UnmappedFamilies
    /\ \A n, m \in DOMAIN view : n # m => view[n].clean_family # view[m].clean_family
    /\ \A n \in DOMAIN view :
          view[n].risk_volume = SumVolume(df_core_products, view[n].clean_family)
    /\ \A n, m \in DOMAIN view : n < m => view[n].risk_volume >= view[m].risk_volume

\* C6: the report section "Technical Exposure (Core Gaps)" and the exported
\* gaps file both hold exactly the families that equal no spine join key, one
\* entry per family with its summed volume, by that volume descending
C6_UnmappedExposure ==
    (ExposureBuilt /\ Len(df_core_products) <= ReportRows) =>
        /\ IsUnmappedView(tech_exposure)
        /\ IsUnmappedView(base_1_gaps)

\* C7: a row labelled REGISTER_ONLY has a registry name and no issue_id
C7_RegisterOnlyIsRegistryOnly ==
    reconciliation_outcome # Unset =>
        \A i \in DOMAIN df_spine :
           reconciliation_outcome[i] = REGISTER_ONLY
              => ~isna(df_spine[i].name) /\ isna(df_spine[i].issue_id)

\* C8: normalize_name applied to its own result returns it unchanged, and
\* None and "" both give the empty key
C8_IdempotentTotal ==
    fn = "normalize_name" =>
        /\ out2 # Unset => out2 = out
        /\ (out # Unset /\ text \in {None, <<>>}) => out = <<>>

C8_Witness ==
    /\ fn = "normalize_name"
    /\ out2 # Unset
    /\ out # <<>>
    /\ text # None
    /\ \E i \in DOMAIN text : text[i] \in {"|", MiddleDot}
    /\ \E i \in DOMAIN text : IsUpper(text[i])

C9_AtMostThreeCalls == \A a \in ArtifactSet : calls[a] <= 3

C9_CallOnlyAfterFailure ==
    \A a \in ArtifactSet :
       calls'[a] # calls[a] =>
          /\ calls'[a] = calls[a] + 1
          /\ a \notin delivered
          /\ waits[a] = calls[a]

\* C9: per artifact at most 3 calls of upload_file_to_gdrive, none after one
\* that succeeded, each further one only after the previous raised and the
\* wait was taken, and the run, hence every upload_to_drive call in it, ends
C9_BoundedRetry ==
    /\ []C9_AtMostThreeCalls
    /\ [][C9_CallOnlyAfterFailure]_vars
    /\ <>(pc = "done")

C9_Witness ==
    /\ pc = "done"
    /\ \E a, b, c \in ArtifactSet :
          /\ calls[a] = 3 /\ a \notin delivered /\ waits[a] = 3
          /\ calls[b] = 2 /\ b \in delivered /\ waits[b] = 1
          /\ calls[c] = 1 /\ c \in delivered /\ waits[c] = 0

Undelivered == {a \in ArtifactSet : calls[a] = 3 /\ a \notin delivered}

\* C10: an artifact whose three attempts all raised leaves no trace: the run
\* uploads the remaining artifacts and logs completion; no upload is attempted
\* before all seven artifacts are written, and a run that raised made none
C10_SilentUploadFailure ==
    /\ (pc = "done" /\ Undelivered # {}) =>
          /\ log = <<COMPLETE>>
          /\ \A b \in ArtifactSet : calls[b] >= 1
    /\ (Undelivered # {}) => pc \in {"upload", "complete", "done"}
    /\ (\E a \in ArtifactSet : calls[a] > 0) => written = WriteOrder
    /\ (pc = "error" \/ \E n \in DOMAIN log : log[n] = ERROR) =>
          /\ \A a \in ArtifactSet : calls[a] = 0
          /\ delivered = {}

C10_Witness ==
    /\ pc = "done"
    /\ log = <<COMPLETE>>
    /\ Artifacts[1] \in Undelivered
    /\ Artifacts[2] \in delivered

====
